---- MODULE Spec2Model ----
(***************************************************************************)
(* Model of rayannott/telegram-chats-analysis: src/message.py (Reaction,   *)
(* Message, reply_chain) and src/chat.py (Chat, Chats).                    *)
(*                                                                         *)
(* Python values are modelled as follows.                                  *)
(*   - Optional[T]: <<>> is None, <<x>> is the value x.                    *)
(*   - str whose content matters (text, emoji): the tuple of its code      *)
(*     points; names that are only compared (senders, ids) are strings.    *)
(*   - a reference to a Message of a list: its position in that list.      *)
(*   - dict / defaultdict / Counter: the tuple of its (key, value) items   *)
(*     in insertion order.                                                 *)
(*   - datetime: [year, month, day, hour, minute, second].                 *)
(***************************************************************************)
EXTENDS Integers, Sequences, FiniteSets, TLC

VARIABLES
    data,     \* the input of the operation (JSON export, records, files)
    self,     \* the object the operation builds or is called on
    arg,      \* the operation's argument (groupby key, threshold)
    ret,      \* the operation's return value
    error,    \* the exception the operation raised, "" when none
    pc        \* the position of the program

vars == <<data, self, arg, ret, error, pc>>

None == <<>>
Some(x) == <<x>>
Get(opt) == opt[1]

Range(s) == {s[i] : i \in DOMAIN s}

SeqsUpTo(S, n) == UNION {[1..k -> S] : k \in 0..n}

RECURSIVE SumSeq(_)
SumSeq(s) == IF s = <<>> THEN 0 ELSE s[1] + SumSeq(Tail(s))

RECURSIVE Concat(_)
Concat(ss) == IF ss = <<>> THEN <<>> ELSE ss[1] \o Concat(Tail(ss))

Reverse(s) == [i \in 1..Len(s) |-> s[Len(s) + 1 - i]]

(***************************************************************************)
(* dict: items in insertion order; an assignment to an existing key keeps  *)
(* the key's place and replaces its value.                                 *)
(***************************************************************************)
DictHas(d, k) == \E i \in DOMAIN d : d[i].key = k

DictIndex(d, k) == CHOOSE i \in DOMAIN d : d[i].key = k

DictGet(d, k) == IF DictHas(d, k) THEN Some(d[DictIndex(d, k)].value) ELSE None

DictSet(d, k, v) ==
    IF DictHas(d, k)
    THEN [d EXCEPT ![DictIndex(d, k)] = [key |-> k, value |-> v]]
    ELSE Append(d, [key |-> k, value |-> v])

\* defaultdict(list): d[k].append(x)
DictAppend(d, k, x) ==
    IF DictHas(d, k)
    THEN [d EXCEPT ![DictIndex(d, k)].value = Append(@, x)]
    ELSE Append(d, [key |-> k, value |-> <<x>>])

(***************************************************************************)
(* datetime: the proleptic Gregorian calendar of the standard library.     *)
(* An ISO-8601 string "YYYY-MM-DDTHH:MM:SS" is the tuple of its six        *)
(* numeric fields.                                                         *)
(***************************************************************************)
fromisoformat(str) ==
    [year |-> str[1], month |-> str[2], day |-> str[3],
     hour |-> str[4], minute |-> str[5], second |-> str[6]]

is_leap(y) == y % 4 = 0 /\ (y % 100 # 0 \/ y % 400 = 0)

days_in_month(y, m) ==
    IF m = 2 THEN (IF is_leap(y) THEN 29 ELSE 28)
    ELSE IF m \in {4, 6, 9, 11} THEN 30 ELSE 31

days_before_year(y) ==
    (y - 1) * 365 + (y - 1) \div 4 - (y - 1) \div 100 + (y - 1) \div 400

RECURSIVE days_before_month(_, _)
days_before_month(y, m) ==
    IF m = 1 THEN 0 ELSE days_before_month(y, m - 1) + days_in_month(y, m - 1)

\* date.toordinal(): 0001-01-01 is day 1
ymd2ord(y, m, d) == days_before_year(y) + days_before_month(y, m) + d

RECURSIVE month_of(_, _, _)
month_of(y, m, n) ==
    IF n <= days_in_month(y, m)
    THEN [year |-> y, month |-> m, day |-> n]
    ELSE month_of(y, m + 1, n - days_in_month(y, m))

\* date.fromordinal(): the 400-, 100-, 4- and 1-year cycles, then the month
ord2ymd(ord) ==
    LET n0   == ord - 1
        n400 == n0 \div 146097
        r400 == n0 % 146097
        n100 == r400 \div 36524
        r100 == r400 % 36524
        n4   == r100 \div 1461
        r4   == r100 % 1461
        n1   == r4 \div 365
        r1   == r4 % 365
        y    == n400 * 400 + n100 * 100 + n4 * 4 + n1 + 1
    IN  IF n1 = 4 \/ n100 = 4
        THEN [year |-> y - 1, month |-> 12, day |-> 31]
        ELSE month_of(y, 1, r1 + 1)

\* datetime.date()
date_of(dt) == [year |-> dt.year, month |-> dt.month, day |-> dt.day]

toordinal(d) == ymd2ord(d.year, d.month, d.day)

\* datetime.weekday(): Monday is 0
weekday(dt) == (toordinal(dt) + 6) % 7

\* dt - timedelta(days=n): the time of day is kept
minus_days(dt, n) ==
    LET d == ord2ymd(toordinal(dt) - n)
    IN  [dt EXCEPT !.year = d.year, !.month = d.month, !.day = d.day]

\* date.replace(day=n)
replace_day(d, n) == [d EXCEPT !.day = n]

\* (b - a).total_seconds()
total_seconds(b, a) ==
    (toordinal(b) - toordinal(a)) * 86400
    + (b.hour - a.hour) * 3600 + (b.minute - a.minute) * 60
    + (b.second - a.second)

(***************************************************************************)
(* src/message.py                                                          *)
(***************************************************************************)
\* a JSON value that is a string, and one that is a list
JStr(s) == [isstr |-> TRUE, val |-> s]
JList(l) == [isstr |-> FALSE, val |-> l]

\* dict.get(key, []) of an optional list
GetOrEmpty(opt) == IF opt = None THEN <<>> ELSE Get(opt)

Reaction_from_dict(reaction_dict) ==
    [emoji |-> reaction_dict.emoji,
     from_when |-> [i \in DOMAIN GetOrEmpty(reaction_dict.recent) |->
                      <<GetOrEmpty(reaction_dict.recent)[i].from,
                        fromisoformat(GetOrEmpty(reaction_dict.recent)[i].date)>>]]

parse_reactions(reactions) ==
    LET keep == SelectSeq(reactions, LAMBDA r : r.type = "emoji")
    IN  [i \in DOMAIN keep |-> Reaction_from_dict(keep[i])]

\* "".join(te["text"] for te in text_entities)
join_text_entities(text_entities) ==
    Concat([i \in DOMAIN text_entities |-> text_entities[i].text])

\* (mutant) the literal text only when it is a non-empty string
Message_text_nonempty(json_data) ==
    IF json_data.text.isstr /\ json_data.text.val # <<>>
    THEN json_data.text.val
    ELSE join_text_entities(GetOrEmpty(json_data.text_entities))

\* the text argument of Message.from_dict: isinstance(json_data["text"], str)
Message_text(json_data) ==
    IF json_data.text.isstr
    THEN json_data.text.val
    ELSE join_text_entities(GetOrEmpty(json_data.text_entities))

Message_from_dict(json_data) ==
    [id |-> json_data.id,
     from_ |-> json_data.from,
     text |-> Message_text(json_data),
     dt |-> fromisoformat(json_data.date),
     edited_dt |-> IF json_data.edited # None
                   THEN Some(fromisoformat(Get(json_data.edited)))
                   ELSE None,
     reply_to_id |-> json_data.reply_to_message_id,
     reply_to |-> None,
     other_text_entity_types |->
        {te.type : te \in {e \in Range(GetOrEmpty(json_data.text_entities)) :
                              e.type # "plain"}},
     reactions |-> parse_reactions(GetOrEmpty(json_data.reactions))]

\* The interpreter's recursion limit (sys.getrecursionlimit()): the deepest
\* nesting of reply_chain calls before the call is aborted with a
\* RecursionError.  Scaled down; it stays above the longest acyclic chain.
RecursionLimit == 8

\* `heap` is the list holding the Message objects, `message` a position in
\* it, `depth` the number of reply_chain frames on the stack.
RECURSIVE reply_chain_at(_, _, _)
reply_chain_at(heap, message, depth) ==
    IF depth > RecursionLimit
    THEN [raised |-> "RecursionError", val |-> <<>>]
    ELSE IF heap[message].reply_to = None
    THEN [raised |-> "", val |-> <<message>>]
    ELSE LET rest == reply_chain_at(heap, Get(heap[message].reply_to), depth + 1)
         IN  IF rest.raised # ""
             THEN rest
             ELSE [raised |-> "", val |-> <<message>> \o rest.val]

reply_chain(heap, message) == reply_chain_at(heap, message, 1)

(***************************************************************************)
(* src/chat.py: Chat                                                       *)
(***************************************************************************)
\* (mutant) the dict comprehension without its type filter
RECURSIVE messages_map_unfiltered(_, _)
messages_map_unfiltered(records, n) ==
    IF n = 0 THEN <<>>
    ELSE DictSet(messages_map_unfiltered(records, n - 1), records[n].id,
                 Message_from_dict(records[n]))

\* the dict comprehension of _build_messages over the first n records
RECURSIVE messages_map_upto(_, _)
messages_map_upto(records, n) ==
    IF n = 0 THEN <<>>
    ELSE LET prev == messages_map_upto(records, n - 1)
             msg  == records[n]
         IN  IF msg.type = "message"
             THEN DictSet(prev, msg.id, Message_from_dict(msg))
             ELSE prev

messages_map_of(records) == messages_map_upto(records, Len(records))

\* the loop that installs the resolved reply references; a reference is the
\* position of the target in messages_map.values()
wire_replies(messages_map) ==
    [i \in DOMAIN messages_map |->
        LET msg == messages_map[i].value
        IN  IF msg.reply_to_id # None /\ DictGet(messages_map, Get(msg.reply_to_id)) # None
            THEN [msg EXCEPT !.reply_to = Some(DictIndex(messages_map, Get(msg.reply_to_id)))]
            ELSE msg]

_build_messages(d) == wire_replies(messages_map_of(d.messages))

\* get_reply_chains over the positions order[1], order[2], ... of messages
RECURSIVE reply_chains_over(_, _)
reply_chains_over(messages, order) ==
    IF order = <<>> THEN [raised |-> "", val |-> <<>>]
    ELSE LET rc == reply_chain(messages, order[1])
         IN  IF rc.raised # "" THEN rc
             ELSE LET rest == reply_chains_over(messages, Tail(order))
                  IN  IF rest.raised # "" THEN rest
                      ELSE [raised |-> "",
                            val |-> (IF Len(rc.val) > 1 THEN <<rc.val>> ELSE <<>>)
                                    \o rest.val]

\* (mutant) the scan in list order instead of reversed
get_reply_chains_forward(messages) ==
    reply_chains_over(messages, [i \in DOMAIN messages |-> i])

get_reply_chains(messages) ==
    reply_chains_over(messages, Reverse([i \in DOMAIN messages |-> i]))

\* the dict comprehension participant_id_map over the first n records
RECURSIVE participant_id_map_upto(_, _)
participant_id_map_upto(records, n) ==
    IF n = 0 THEN <<>>
    ELSE LET prev == participant_id_map_upto(records, n - 1)
             msg  == records[n]
         IN  IF msg.from_id # None
             THEN DictSet(prev, Get(msg.from_id), msg.from)
             ELSE prev

participant_id_map_of(records) == participant_id_map_upto(records, Len(records))

\* next(msg.from_ for msg in messages if msg.from_ != chat_with)
first_other_sender(messages, chat_with) ==
    LET others == SelectSeq(messages, LAMBDA msg : msg.from_ # chat_with)
    IN  IF others = <<>> THEN None ELSE Some(others[1].from_)

\* Chat.__init__: [raised, chat]; chat is the object built when raised = ""
Chat_init(exported_file) ==
    LET d == exported_file.data
        participant_id_map == participant_id_map_of(d.messages)
        chat_with_user_id == "user" \o ToString(d.id)
        failed(e) == [raised |-> e, chat |-> None]
    IN  IF d.type # "personal_chat" \/ Len(participant_id_map) # 2
        THEN failed("NotImplementedError")
        ELSE IF ~DictHas(participant_id_map, chat_with_user_id)
        THEN failed("KeyError")
        ELSE LET upd_name == Get(DictGet(participant_id_map, chat_with_user_id))
                 chat_with == IF d.name # upd_name THEN upd_name ELSE d.name
                 messages == _build_messages(d)
                 you == first_other_sender(messages, chat_with)
             IN  IF you = None
                 THEN failed("StopIteration")
                 ELSE [raised |-> "",
                       chat |-> [id_name |-> exported_file.stem,
                                 chat_with |-> chat_with,
                                 messages |-> messages,
                                 you |-> Get(you)]]

\* KEYMAP of groupby
day_key(x) == date_of(x.dt)

\* (mutant) the offset taken from isoweekday(), where Monday is 1
week_key_iso(x) == date_of(minus_days(x.dt, weekday(x.dt) + 1))

week_key(x) == date_of(minus_days(x.dt, weekday(x.dt)))

month_key(x) == replace_day(date_of(x.dt), 1)

KEYMAP(key, x) ==
    CASE key = "day" -> day_key(x)
      [] key = "week" -> week_key(x)
      [] key = "month" -> month_key(x)

\* the loop of groupby over the first n messages; a bucket holds references
\* to (positions of) its messages
RECURSIVE grouped_upto(_, _, _)
grouped_upto(messages, key, n) ==
    IF n = 0 THEN <<>>
    ELSE DictAppend(grouped_upto(messages, key, n - 1), KEYMAP(key, messages[n]), n)

groupby(messages, key) == grouped_upto(messages, key, Len(messages))

\* (mutant) the sample recorded under the sender of the later message
RECURSIVE waiting_times_later(_, _)
waiting_times_later(messages, n) ==
    IF n <= 1 THEN <<>>
    ELSE LET prev == waiting_times_later(messages, n - 1)
             m1 == messages[n - 1]
             m2 == messages[n]
         IN  IF m1.from_ # m2.from_
             THEN DictAppend(prev, m2.from_, total_seconds(m2.dt, m1.dt))
             ELSE prev

\* the loop of get_waiting_times over the pairs of the first n messages
RECURSIVE waiting_times_upto(_, _)
waiting_times_upto(messages, n) ==
    IF n <= 1 THEN <<>>
    ELSE LET prev == waiting_times_upto(messages, n - 1)
             m1 == messages[n - 1]
             m2 == messages[n]
         IN  IF m1.from_ # m2.from_
             THEN DictAppend(prev, m1.from_, total_seconds(m2.dt, m1.dt))
             ELSE prev

get_waiting_times(messages) == waiting_times_upto(messages, Len(messages))

\* Counter(string): the occurrences of each code point of the string, a key
\* being the one-character string of that code point
RECURSIVE Counter(_)
Counter(str) ==
    IF str = <<>> THEN <<>>
    ELSE LET prev == Counter(SubSeq(str, 1, Len(str) - 1))
             ch   == <<str[Len(str)]>>
         IN  IF DictHas(prev, ch)
             THEN [prev EXCEPT ![DictIndex(prev, ch)].value = @ + 1]
             ELSE Append(prev, [key |-> ch, value |-> 1])

\* Counter[key]: 0 for a missing key
CounterGet(c, k) == IF DictHas(c, k) THEN Get(DictGet(c, k)) ELSE 0

\* the reactors of all reaction events of the messages, each with the emoji
\* of its reaction, in the order of the three nested loops
reaction_events(messages) ==
    Concat([i \in DOMAIN messages |->
        Concat([j \in DOMAIN messages[i].reactions |->
            [k \in DOMAIN messages[i].reactions[j].from_when |->
                [reactor |-> messages[i].reactions[j].from_when[k][1],
                 emoji |-> messages[i].reactions[j].emoji]]])])

\* me += react.emoji / them += react.emoji over the events
concat_emoji(events) == Concat([i \in DOMAIN events |-> events[i].emoji])

get_reaction_counters(chat) ==
    LET events == reaction_events(chat.messages)
        me   == concat_emoji(SelectSeq(events, LAMBDA e : e.reactor = chat.you))
        them == concat_emoji(SelectSeq(events, LAMBDA e : e.reactor # chat.you))
    IN  <<Counter(me), Counter(them)>>

(***************************************************************************)
(* src/chat.py: Chats                                                      *)
(***************************************************************************)
\* [Chat(file) for file in from_files]: the first failing Chat aborts the load
RECURSIVE _load_chats(_)
_load_chats(from_files) ==
    IF from_files = <<>> THEN [raised |-> "", chats |-> <<>>]
    ELSE LET c == Chat_init(from_files[1])
         IN  IF c.raised # "" THEN [raised |-> c.raised, chats |-> <<>>]
             ELSE LET rest == _load_chats(Tail(from_files))
                  IN  IF rest.raised # "" THEN rest
                      ELSE [raised |-> "", chats |-> <<c.chat>> \o rest.chats]

\* list.sort(key=len(chat.messages), reverse=True): stable, so chats with
\* equally many messages keep their order
RECURSIVE sort_by_messages(_)
sort_by_messages(chats) ==
    IF chats = <<>> THEN <<>>
    ELSE LET head == chats[Len(chats)]
             done == sort_by_messages(SubSeq(chats, 1, Len(chats) - 1))
             keep == {i \in DOMAIN done :
                        Len(done[i].messages) >= Len(head.messages)}
             at   == Cardinality(keep)
         IN  SubSeq(done, 1, at) \o <<head>> \o SubSeq(done, at + 1, Len(done))

\* {chat.id_name: chat for chat in chats}
RECURSIVE chats_dict_upto(_, _)
chats_dict_upto(chats, n) ==
    IF n = 0 THEN <<>>
    ELSE DictSet(chats_dict_upto(chats, n - 1), chats[n].id_name, chats[n])

\* (mutant) an assertion that only asks for some name
some_your_name(your_names) == Cardinality(Range(your_names)) >= 1

\* assert len(set(your_names)) == 1
single_your_name(your_names) == Cardinality(Range(your_names)) = 1

\* Chats.__init__: [raised, obj]
Chats_init(chats_files) ==
    LET loaded == _load_chats(chats_files)
    IN  IF loaded.raised # "" THEN [raised |-> loaded.raised, obj |-> None]
        ELSE LET chats == sort_by_messages(loaded.chats)
                 your_names == [i \in DOMAIN chats |-> chats[i].you]
             IN  IF ~single_your_name(your_names)
                 THEN [raised |-> "AssertionError", obj |-> None]
                 ELSE [raised |-> "",
                       obj |-> [chats |-> chats_dict_upto(chats, Len(chats)),
                                your_name |-> your_names[1]]]

\* statistics.median of a non-empty list: the middle value of the sorted
\* data, the mean of the two middle values for an even count (exact here:
\* the samples are even numbers of seconds)
median(times) ==
    LET sorted == SortSeq(times, LAMBDA a, b : a < b)
        n == Len(sorted)
    IN  IF n % 2 = 1
        THEN sorted[(n + 1) \div 2]
        ELSE (sorted[n \div 2] + sorted[n \div 2 + 1]) \div 2

\* {chat.chat_with: chat.get_waiting_times() for chat in self}
RECURSIVE chat_to_waiting_times_upto(_, _)
chat_to_waiting_times_upto(chats, n) ==
    IF n = 0 THEN <<>>
    ELSE DictSet(chat_to_waiting_times_upto(chats, n - 1),
                 chats[n].value.chat_with,
                 get_waiting_times(chats[n].value.messages))

\* the (chat_name, sender, times) triples the two nested loops visit, in order
waiting_entries(chat_to_waiting_times) ==
    Concat([i \in DOMAIN chat_to_waiting_times |->
        [j \in DOMAIN chat_to_waiting_times[i].value |->
            [chat_name |-> chat_to_waiting_times[i].key,
             sender |-> chat_to_waiting_times[i].value[j].key,
             times |-> chat_to_waiting_times[i].value[j].value]]])

\* (mutant) a median equal to the threshold is kept
median_ok_inclusive(mdn, threshold_median) == mdn <= threshold_median

\* median_ok = mdn < threshold_median
median_ok(mdn, threshold_median) == mdn < threshold_median

\* the body of the loops of fig_waiting_times over the first n entries:
\* chat_names and medians = (me, them)
RECURSIVE fig_series_upto(_, _, _, _)
fig_series_upto(entries, your_name, threshold_median, n) ==
    IF n = 0 THEN [chat_names |-> <<>>, me |-> <<>>, them |-> <<>>]
    ELSE LET prev == fig_series_upto(entries, your_name, threshold_median, n - 1)
             idx == IF entries[n].sender = your_name THEN 0 ELSE 1
             mdn == median(entries[n].times)
             ok  == median_ok(mdn, threshold_median)
         IN  [chat_names |-> IF idx = 0 /\ ok
                             THEN Append(prev.chat_names, entries[n].chat_name)
                             ELSE prev.chat_names,
              me |-> IF ok /\ idx = 0 THEN Append(prev.me, mdn) ELSE prev.me,
              them |-> IF ok /\ idx = 1 THEN Append(prev.them, mdn) ELSE prev.them]

\* Chats.fig_waiting_times: the x and y series of the two bar traces
fig_waiting_times(chats, threshold_median) ==
    LET entries == waiting_entries(
                     chat_to_waiting_times_upto(chats.chats, Len(chats.chats)))
    IN  fig_series_upto(entries, chats.your_name, threshold_median, Len(entries))

(***************************************************************************)
(* Inputs.  JSON message records of an export; a missing optional key is   *)
(* None.                                                                   *)
(***************************************************************************)
Date0 == <<2024, 1, 1, 0, 0, 0>>

Record(id, type, from_id, from, date, reply_to_message_id) ==
    [id |-> id, type |-> type, from_id |-> from_id, from |-> from,
     date |-> date, edited |-> None,
     reply_to_message_id |-> reply_to_message_id,
     text |-> JStr(<<>>), text_entities |-> None, reactions |-> None]

Ids == {1, 2, 3}

OptIds == {None} \cup {Some(i) : i \in Ids}

MaxRecords == 3

ReplyRecords ==
    {Record(id, type, Some("user1"), "A", Date0, reply) :
        id \in Ids, type \in {"message", "service"}, reply \in OptIds}

(***************************************************************************)
(* Specification SpecBuild: Chat._build_messages on a list of records,     *)
(* then Chat.get_reply_chains on the messages built.                       *)
(***************************************************************************)
InitBuild ==
    /\ data \in {[messages |-> rs] : rs \in SeqsUpTo(ReplyRecords, MaxRecords)}
    /\ self = None
    /\ arg = None
    /\ ret = None
    /\ error = ""
    /\ pc = "start"

BuildMessages ==
    /\ pc = "start"
    /\ self' = [messages |-> _build_messages(data)]
    /\ pc' = "built"
    /\ UNCHANGED <<data, arg, ret, error>>

GetReplyChains ==
    /\ pc = "built"
    /\ LET r == get_reply_chains(self.messages)
       IN  /\ ret' = r.val
           /\ error' = r.raised
    /\ pc' = "done"
    /\ UNCHANGED <<data, self, arg>>

NextBuild == BuildMessages \/ GetReplyChains

SpecBuild == InitBuild /\ [][NextBuild]_vars

(***************************************************************************)
(* Properties of _build_messages, reply_chain and get_reply_chains         *)
(***************************************************************************)
Built == pc \in {"built", "done"}

\* the record a built message was parsed from: the last message-type record
\* of the input that carries its id
SourceRecord(id) ==
    LET rs == data.messages
        at == {i \in DOMAIN rs : rs[i].type = "message" /\ rs[i].id = id}
    IN  rs[CHOOSE i \in at : \A j \in at : j <= i]

MessageRecordExists(id) ==
    \E r \in Range(data.messages) : r.type = "message" /\ r.id = id

\* the position reached from message i by following n resolved references,
\* 0 when the chain ends before
RECURSIVE Follow(_, _, _)
Follow(messages, i, n) ==
    IF n = 0 THEN i
    ELSE IF messages[i].reply_to = None THEN 0
    ELSE Follow(messages, Get(messages[i].reply_to), n - 1)

\* some message's chain never reaches a message without a reply reference
Cyclic(messages) ==
    \E i \in DOMAIN messages : Follow(messages, i, Len(messages)) # 0

\* C1: after _build_messages, a message's reply_to is set exactly when its
\* reply_to_id is non-null and a message-type record with that id exists;
\* a set reply_to is a message of the returned list whose id is reply_to_id;
\* every returned message stems from a message-type record, whose
\* reply_to_id it retains (also when dangling, with reply_to unset), and
\* nothing is raised.
C1_ReplyResolved ==
    Built =>
        \A i \in DOMAIN self.messages :
            LET m == self.messages[i]
            IN  /\ (m.reply_to # None) <=>
                     (m.reply_to_id # None /\ MessageRecordExists(Get(m.reply_to_id)))
                /\ m.reply_to # None =>
                     /\ Get(m.reply_to) \in DOMAIN self.messages
                     /\ self.messages[Get(m.reply_to)].id = Get(m.reply_to_id)
                /\ MessageRecordExists(m.id)
                /\ m.reply_to_id = SourceRecord(m.id).reply_to_message_id
                /\ pc = "built" => error = ""

C1_Witness ==
    /\ pc = "built"
    /\ \E i, j \in DOMAIN self.messages :
          /\ self.messages[i].reply_to # None
          /\ self.messages[j].reply_to_id # None
          /\ self.messages[j].reply_to = None
    /\ \E r \in Range(data.messages) : r.type = "service"

\* C2: reply_chain terminates for every message of a built chat: on an
\* acyclic reply graph the chains are returned, on a graph with a cycle a
\* data error is raised, and the recursion is never cut off only by the
\* interpreter's recursion limit.
C2_ChainTerminates ==
    pc = "done" =>
        /\ error # "RecursionError"
        /\ Cyclic(self.messages) => error # ""
        /\ ~Cyclic(self.messages) => error = ""

\* C10: on an acyclic reply graph get_reply_chains returns one chain for
\* each message with a resolved reply reference, in reverse list order;
\* a chain starts at its message, continues with the reply target of the
\* previous element, ends at a message without a reply target and has at
\* least two elements.
RepliesReversed ==
    SelectSeq(Reverse([i \in DOMAIN self.messages |-> i]),
              LAMBDA i : self.messages[i].reply_to # None)

MaxChatRecords == 3

\* record i of an export has id i
SenderChoices ==
    [type : {"message", "service"},
     from_id : {None, Some("user1"), Some("user2"), Some("user3")},
     from : {"A", "B", "C"}]

SenderRecords(choices) ==
    [i \in DOMAIN choices |->
        Record(i, choices[i].type, choices[i].from_id, choices[i].from, Date0, None)]

InitChat ==
    /\ data \in {[stem |-> "chat1",
                  data |-> [id |-> id, name |-> name, type |-> type,
                            messages |-> SenderRecords(cs)]] :
                    id \in {1, 2}, name \in {"A", "B"},
                    type \in {"personal_chat", "private_group"},
                    cs \in SeqsUpTo(SenderChoices, MaxChatRecords)}
    /\ self = None
    /\ arg = None
    /\ ret = None
    /\ error = ""
    /\ pc = "start"

ChatInit ==
    /\ pc = "start"
    /\ LET r == Chat_init(data)
       IN  /\ self' = r.chat
           /\ error' = r.raised
    /\ pc' = "done"
    /\ UNCHANGED <<data, arg, ret>>

NextChat == ChatInit

SpecChat == InitChat /\ [][NextChat]_vars

\* the sender identities over the message-type records of the export
RecordSenders ==
    {r.from : r \in {x \in Range(data.data.messages) : x.type = "message"}}

\* C3: Chat construction succeeds only when exactly two distinct sender
\* identities appear across the messages of the chat, and fails with the
\* unsupported-shape error (NotImplementedError) otherwise; a constructed
\* Chat has exactly two sender identities over its messages.
C3_TwoSenders ==
    pc = "done" =>
        /\ error = "" => Cardinality({m.from_ : m \in Range(self.messages)}) = 2
        /\ Cardinality(RecordSenders) # 2 => error = "NotImplementedError"

(***************************************************************************)
(* Specification SpecChats: Chats.__init__ on the files of a directory.    *)
(***************************************************************************)
MaxFiles == 3

UserIdOf(name) ==
    CASE name = "B" -> 1 [] name = "C" -> 2 [] name = "Me" -> 8 [] OTHER -> 9

\* a personal chat of `you` with `with` of n messages, `with` writing first
\* and the two taking turns
PersonalExport(you, with, n) ==
    [id |-> UserIdOf(with), name |-> with, type |-> "personal_chat",
     messages |-> [i \in 1..n |->
        LET who == IF i % 2 = 1 THEN with ELSE you
        IN  Record(i, "message", Some("user" \o ToString(UserIdOf(who))), who,
                   Date0, None)]]

GroupExport == [PersonalExport("Me", "B", 2) EXCEPT !.type = "private_group"]

Exports ==
    {PersonalExport(you, with, n) :
        you \in {"Me", "Alt"}, with \in {"B", "C"}, n \in {2, 3}}
    \cup {GroupExport}

\* the *.json files of a directory: their stems differ
FilesOf(exports) ==
    [i \in DOMAIN exports |->
        [stem |-> "chat" \o ToString(i), data |-> exports[i]]]

InitChats ==
    /\ data \in {FilesOf(es) : es \in SeqsUpTo(Exports, MaxFiles)}
    /\ self = None
    /\ arg = None
    /\ ret = None
    /\ error = ""
    /\ pc = "start"

ChatsInit ==
    /\ pc = "start"
    /\ LET r == Chats_init(data)
       IN  /\ self' = r.obj
           /\ error' = r.raised
    /\ pc' = "done"
    /\ UNCHANGED <<data, arg, ret>>

NextChats == ChatsInit

SpecChats == InitChats /\ [][NextChats]_vars

\* the self identities the loaded chats resolve to
LoadedYous == {Chat_init(f).chat.you : f \in {g \in Range(data) : Chat_init(g).raised = ""}}

\* C4: Chats construction fails whenever two of the loaded chats resolve
\* to different self identities; when it succeeds, every contained chat's
\* self identity equals the collection's your_name, and every loaded chat
\* is contained.
C4_SameSelf ==
    pc = "done" =>
        /\ Cardinality(LoadedYous) > 1 => error # ""
        /\ error = "" =>
              /\ \A i \in DOMAIN self.chats : self.chats[i].value.you = self.your_name
              /\ {self.chats[i].key : i \in DOMAIN self.chats} = {f.stem : f \in Range(data)}

C4_Witness ==
    /\ pc = "done"
    /\ error = "AssertionError"
    /\ Cardinality(LoadedYous) = 2
    /\ Len(data) = 3

(***************************************************************************)
(* Specification SpecWait: Chat.get_waiting_times on a chat's messages.    *)
(***************************************************************************)
MaxMessages == 4

\* a Chat of "A" (self) with "B" holding the given messages
ChatOf(messages) ==
    [id_name |-> "chat1", chat_with |-> "B", you |-> "A", messages |-> messages]

WaitDates ==
    {<<2024, 1, 1, 0, 0, 0>>, <<2024, 1, 1, 0, 0, 30>>, <<2024, 1, 1, 0, 1, 30>>,
     <<2024, 1, 2, 0, 0, 0>>}

WaitMessages ==
    {Message_from_dict(Record(1, "message", None, from, d, None)) :
        from \in {"A", "B"}, d \in WaitDates}

InitWait ==
    /\ data = None
    /\ self \in {ChatOf(ms) : ms \in {x \in SeqsUpTo(WaitMessages, MaxMessages) :
                                        \E i \in DOMAIN x : x[i].from_ = "A"}}
    /\ arg = None
    /\ ret = None
    /\ error = ""
    /\ pc = "start"

GetWaitingTimes ==
    /\ pc = "start"
    /\ ret' = get_waiting_times(self.messages)
    /\ pc' = "done"
    /\ UNCHANGED <<data, self, arg, error>>

NextWait == GetWaitingTimes

SpecWait == InitWait /\ [][NextWait]_vars

\* the Julian day number of a calendar date (Fliegel and Van Flandern);
\* it is a multiple of 7 on Mondays
JulianDay(d) ==
    LET a == IF d.month <= 2 THEN 1 ELSE 0
        y == d.year + 4800 - a
        m == d.month + 12 * a - 3
    IN  d.day + (153 * m + 2) \div 5 + 365 * y + y \div 4 - y \div 100
        + y \div 400 - 32045

\* the seconds elapsed from a to b
Elapsed(a, b) ==
    (JulianDay(b) - JulianDay(a)) * 86400
    + (b.hour * 3600 + b.minute * 60 + b.second)
    - (a.hour * 3600 + a.minute * 60 + a.second)

\* the positions i whose message and the next one have different senders
SwitchesOf(messages) ==
    SelectSeq([i \in 1..(Len(messages) - 1) |-> i],
              LAMBDA i : messages[i].from_ # messages[i + 1].from_)

\* C5: get_waiting_times yields one sample per adjacent pair with different
\* senders and none for the other pairs; a sample is the seconds elapsed
\* from the earlier to the later message and is recorded, in list order,
\* under the sender of the earlier message.
C5_WaitingTimes ==
    pc = "done" =>
        LET ms == self.messages
            sw == SwitchesOf(ms)
            by(s) == SelectSeq(sw, LAMBDA i : ms[i].from_ = s)
        IN  /\ SumSeq([i \in DOMAIN ret |-> Len(ret[i].value)]) = Len(sw)
            /\ \A i, j \in DOMAIN ret : ret[i].key = ret[j].key => i = j
            /\ \A s \in {"A", "B"} :
                  IF by(s) = <<>>
                  THEN ~DictHas(ret, s)
                  ELSE /\ DictHas(ret, s)
                       /\ Get(DictGet(ret, s)) =
                            [k \in DOMAIN by(s) |->
                               Elapsed(ms[by(s)[k]].dt, ms[by(s)[k] + 1].dt)]

\* A@t0, B@t0+30s, A@t0+90s gives A = [30], B = [60]
C5_Witness ==
    /\ pc = "done"
    /\ Len(self.messages) = 3
    /\ [i \in 1..3 |-> self.messages[i].from_] = <<"A", "B", "A">>
    /\ [i \in 1..3 |-> self.messages[i].dt.minute * 60 + self.messages[i].dt.second]
         = <<0, 30, 90>>
    /\ \A i \in 1..3 : self.messages[i].dt.day = 1
    /\ ret = <<[key |-> "A", value |-> <<30>>], [key |-> "B", value |-> <<60>>]>>

(***************************************************************************)
(* Specification SpecWeek: Chat.groupby on a chat's messages.              *)
(***************************************************************************)
MaxGroupMessages == 2

GroupDays ==
    {<<2024, 12, d>> : d \in 28..31} \cup {<<2025, 1, d>> : d \in 1..6}
    \cup {<<2023, 12, 31>>, <<2024, 1, 1>>, <<2024, 1, 7>>, <<2024, 1, 8>>}
    \cup {<<2024, 2, d>> : d \in 26..29} \cup {<<2024, 3, d>> : d \in 1..4}
    \cup {<<2023, 2, 27>>, <<2023, 2, 28>>, <<2023, 3, 1>>, <<2023, 3, 5>>}
    \cup {<<2100, 2, 28>>, <<2100, 3, 1>>, <<2000, 2, 29>>, <<2000, 3, 1>>}

GroupMessages ==
    {Message_from_dict(Record(1, "message", None, "A", d \o <<h, 0, 0>>, None)) :
        d \in GroupDays, h \in {0, 23}}

InitWeek ==
    /\ data = None
    /\ self \in {ChatOf(ms) : ms \in SeqsUpTo(GroupMessages, MaxGroupMessages)}
    /\ arg = None
    /\ ret = None
    /\ error = ""
    /\ pc = "start"

Groupby ==
    /\ pc = "start"
    /\ \E key \in {"day", "week", "month"} :
          /\ arg' = key
          /\ ret' = groupby(self.messages, key)
    /\ pc' = "done"
    /\ UNCHANGED <<data, self, error>>

NextWeek == Groupby

SpecWeek == InitWeek /\ [][NextWeek]_vars

\* C6: groupby("week") places every message in exactly one bucket, whose
\* key is a Monday, and bucket date <= message date <= bucket date + 6 days.
C6_WeekBuckets ==
    (pc = "done" /\ arg = "week") =>
        /\ \A n \in DOMAIN self.messages :
              Cardinality({<<i, j>> \in (DOMAIN ret) \X (1..Len(self.messages)) :
                              j \in DOMAIN ret[i].value /\ ret[i].value[j] = n}) = 1
        /\ \A i \in DOMAIN ret :
              /\ JulianDay(ret[i].key) % 7 = 0
              /\ DOMAIN ret[i].key = {"year", "month", "day"}
              /\ ret[i].key.month \in 1..12
              /\ ret[i].key.day \in 1..31
              /\ \A j \in DOMAIN ret[i].value :
                    LET md == JulianDay(self.messages[ret[i].value[j]].dt)
                    IN  /\ JulianDay(ret[i].key) <= md
                        /\ md <= JulianDay(ret[i].key) + 6

\* a week bucket that starts in December and holds a message of January
C6_Witness ==
    /\ pc = "done"
    /\ arg = "week"
    /\ Len(ret) = 1
    /\ ret[1].key = [year |-> 2024, month |-> 12, day |-> 30]
    /\ ret[1].value = <<1, 2>>
    /\ self.messages[1].dt.year = 2025
    /\ self.messages[2].dt.year = 2024

(***************************************************************************)
(* Specification SpecParse: Message.from_dict on one message record.       *)
(***************************************************************************)
MaxEntities == 2

TextEntities ==
    [type : {"plain", "bold"}, text : {<<"a">>, <<"b">>}]

\* the text field: a string, or the list an export holds for styled text
TextFields == {JStr(<<>>), JStr(<<"a">>), JStr(<<"b", "a">>), JList(<<"x">>)}

InitParse ==
    /\ data \in {[Record(1, "message", Some("user1"), "A", Date0, None)
                    EXCEPT !.text = t, !.text_entities = te] :
                  t \in TextFields,
                  te \in {None} \cup {Some(es) : es \in SeqsUpTo(TextEntities, MaxEntities)}}
    /\ self = None
    /\ arg = None
    /\ ret = None
    /\ error = ""
    /\ pc = "start"

FromDict ==
    /\ pc = "start"
    /\ ret' = Message_from_dict(data)
    /\ pc' = "done"
    /\ UNCHANGED <<data, self, arg, error>>

NextParse == FromDict

SpecParse == InitParse /\ [][NextParse]_vars

\* the concatenation, in order, of the entity fragments of the record
RECURSIVE FragmentsFrom(_, _)
FragmentsFrom(es, i) ==
    IF i > Len(es) THEN <<>> ELSE es[i].text \o FragmentsFrom(es, i + 1)

Fragments == FragmentsFrom(GetOrEmpty(data.text_entities), 1)

\* C7 (as claimed): the text of the message is the literal text field when
\* that field is a non-empty string, and the concatenation of the entity
\* fragments otherwise, also when the text field is the empty string.
C7_TextOrFragments ==
    pc = "done" =>
        /\ (data.text.isstr /\ data.text.val # <<>>) => ret.text = data.text.val
        /\ ~(data.text.isstr /\ data.text.val # <<>>) => ret.text = Fragments

\* C7 (amended): the text of the message is the literal text field whenever
\* that field is a string, the empty string included, and the concatenation
\* of the entity fragments when the field is not a string.
C7_TextIfString ==
    pc = "done" =>
        /\ data.text.isstr => ret.text = data.text.val
        /\ ~data.text.isstr => ret.text = Fragments

\* an empty text string beside non-empty fragments
C7_Witness ==
    /\ pc = "done"
    /\ data.text = JStr(<<>>)
    /\ Fragments = <<"a", "b">>
    /\ ret.text = <<>>

(***************************************************************************)
(* Specification SpecReact: Chat.get_reaction_counters.                    *)
(***************************************************************************)
MaxReactions == 2

MaxReactMessages == 2

\* a one-code-point emoji and one of two code points (a heart followed by
\* a variation selector)
ReactEmojis == {<<"L">>, <<"H", "V">>}

Recent(reactors) == [i \in DOMAIN reactors |-> [from |-> reactors[i], date |-> Date0]]

ReactionDicts ==
    [type : {"emoji", "custom_emoji"},
     emoji : ReactEmojis,
     recent : {None, Some(Recent(<<"A">>)), Some(Recent(<<"B">>)),
               Some(Recent(<<"B", "A">>))}]

ReactMessages ==
    {Message_from_dict([Record(1, "message", Some("user1"), "B", Date0, None)
                          EXCEPT !.reactions = rs]) :
        rs \in {None} \cup {Some(x) : x \in SeqsUpTo(ReactionDicts, MaxReactions) \ {<<>>}}}

InitReact ==
    /\ data = None
    /\ self \in {ChatOf(ms) : ms \in SeqsUpTo(ReactMessages, MaxReactMessages) \ {<<>>}}
    /\ arg = None
    /\ ret = None
    /\ error = ""
    /\ pc = "start"

GetReactionCounters ==
    /\ pc = "start"
    /\ ret' = get_reaction_counters(self)
    /\ pc' = "done"
    /\ UNCHANGED <<data, self, arg, error>>

NextReact == GetReactionCounters

SpecReact == InitReact /\ [][NextReact]_vars

\* the reaction events of the chat: (message, reaction, event) positions
ReactionEvents ==
    {<<i, j, k>> \in (DOMAIN self.messages) \X (1..MaxReactions) \X (1..2) :
        /\ j \in DOMAIN self.messages[i].reactions
        /\ k \in DOMAIN self.messages[i].reactions[j].from_when}

EventsOf(mine, emoji) ==
    {e \in ReactionEvents :
        LET r == self.messages[e[1]].reactions[e[2]]
        IN  /\ r.emoji = emoji
            /\ (r.from_when[e[3]][1] = self.you) = mine}

CounterTotal(c) == SumSeq([i \in DOMAIN c |-> c[i].value])

\* C8: every reaction event is counted in exactly one table, the first when
\* the reactor is the chat's self identity and the second otherwise; the
\* count of an emoji in a table is the number of that role's events carrying
\* it, also for an emoji of more than one character, and the two totals sum
\* to the number of events.
C8_ReactionCounters ==
    pc = "done" =>
        /\ \A emoji \in ReactEmojis :
              /\ CounterGet(ret[1], emoji) = Cardinality(EventsOf(TRUE, emoji))
              /\ CounterGet(ret[2], emoji) = Cardinality(EventsOf(FALSE, emoji))
        /\ CounterTotal(ret[1]) + CounterTotal(ret[2]) = Cardinality(ReactionEvents)

(***************************************************************************)
(* Specification SpecFig: Chats.fig_waiting_times on a loaded collection.  *)
(***************************************************************************)
MaxFigChats == 2

\* the orders in which "Me" and the counterpart write
SenderOrders(with) ==
    {<<"Me", with>>, <<with, "Me">>, <<"Me", with, "Me">>, <<with, "Me", with>>,
     <<"Me", with, with>>, <<"Me", with, "Me", with>>}

\* the seconds between consecutive messages
Gaps == {30, 60}

\* message i is sent gaps[1] + ... + gaps[i - 1] seconds after the first
DateAfter(gaps, i) ==
    LET t == SumSeq(SubSeq(gaps, 1, i - 1))
    IN  <<2024, 1, 1, 0, t \div 60, t % 60>>

TimedExport(with, senders, gaps) ==
    [id |-> UserIdOf(with), name |-> with, type |-> "personal_chat",
     messages |-> [i \in DOMAIN senders |->
        Record(i, "message", Some("user" \o ToString(UserIdOf(senders[i]))),
               senders[i], DateAfter(gaps, i), None)]]

TimedExports ==
    UNION {{TimedExport(with, senders, gaps) :
              gaps \in [1..(Len(senders) - 1) -> Gaps]} :
           <<with, senders>> \in UNION {{<<w, so>> : so \in SenderOrders(w)} : w \in {"B", "C"}}}

\* the default threshold_median, and one that medians reach
Thresholds == {45, 100}

InitFig ==
    /\ data \in {FilesOf(es) : es \in SeqsUpTo(TimedExports, MaxFigChats) \ {<<>>}}
    /\ self = Chats_init(data).obj
    /\ arg = None
    /\ ret = None
    /\ error = ""
    /\ pc = "start"

FigWaitingTimes ==
    /\ pc = "start"
    /\ \E threshold_median \in Thresholds :
          /\ arg' = threshold_median
          /\ ret' = fig_waiting_times(self, threshold_median)
    /\ pc' = "done"
    /\ UNCHANGED <<data, self, error>>

NextFig == FigWaitingTimes

SpecFig == InitFig /\ [][NextFig]_vars

\* the chats fig_waiting_times keeps: chats are keyed by counterpart name,
\* and of the chats that share a name the last one replaces the others, at
\* the place of the first
KeptChats ==
    LET cs == self.chats
        firsts == SelectSeq([i \in DOMAIN cs |-> i],
                      LAMBDA i : \A j \in 1..(i - 1) :
                          cs[j].value.chat_with # cs[i].value.chat_with)
        last(i) == CHOOSE j \in DOMAIN cs :
                      /\ cs[j].value.chat_with = cs[i].value.chat_with
                      /\ \A k \in DOMAIN cs :
                            cs[k].value.chat_with = cs[i].value.chat_with => k <= j
    IN  [n \in DOMAIN firsts |-> cs[last(firsts[n])].value]

\* the medians of the kept chats' senders of one role, in the order of the
\* chats, that satisfy Keep
MediansKept(mine, Keep(_)) ==
    Concat([n \in DOMAIN KeptChats |->
        LET wt == get_waiting_times(KeptChats[n].messages)
            of == SelectSeq(wt, LAMBDA e :
                     (e.key = self.your_name) = mine /\ Keep(median(e.value)))
        IN  [j \in DOMAIN of |-> median(of[j].value)]])

NotAbove(mdn) == mdn <= arg

Below(mdn) == mdn < arg

KeptChatNamed(chat_name) ==
    KeptChats[CHOOSE n \in DOMAIN KeptChats : KeptChats[n].chat_with = chat_name]

\* the median waiting time of a sender of a chat, None without samples
MedianOf(chat, sender) ==
    LET times == DictGet(get_waiting_times(chat.messages), sender)
    IN  IF times = None THEN None ELSE Some(median(Get(times)))

\* C11: the three series of fig_waiting_times stay aligned: chat_names, the
\* "me" medians and the "them" medians have the same length, and the i-th
\* value of each median list is the median of that role in the i-th chat
\* named.
C11_SeriesAligned ==
    pc = "done" =>
        /\ Len(ret.me) = Len(ret.chat_names)
        /\ Len(ret.them) = Len(ret.chat_names)
        /\ \A i \in DOMAIN ret.chat_names :
              LET chat == KeptChatNamed(ret.chat_names[i])
              IN  /\ MedianOf(chat, self.your_name) = Some(ret.me[i])
                  /\ MedianOf(chat, chat.chat_with) = Some(ret.them[i])

====
